---- MODULE Spec2Model ----
(***************************************************************************)
(* genericmap.Map[K, V]: a forward index data (K -> V) and a reverse index *)
(* reverseMap (V -> set of K) behind one sync.RWMutex.                     *)
(*                                                                         *)
(* Spec      every exported method is one atomic action (the whole body    *)
(*           between Lock/RLock and the deferred unlock).                  *)
(* ConcSpec  goroutines call the methods concurrently; a method is a       *)
(*           sequence of steps, one per access to mu, data or reverseMap.  *)
(* TestSpec  the goroutines of TestConcurrentAccess, with the same steps.  *)
(* NewSpec   New(initialData...) taken one initial map at a time.          *)
(* SnapSpec  a caller keeps the slice a read method returned, writes to    *)
(*           it, and goes on calling Set and Remove.                       *)
(***************************************************************************)
EXTENDS Integers, Sequences, FiniteSets, TLC

\* ------------------------------------------------------------------ bounds
NumKeys == 3
NumValues == 3

\* ConcSpec: the goroutines calling into one Map, and their keys and values.
NumProcs == 2
NumConcKeys == 1
NumConcValues == 2

\* TestSpec: TestConcurrentAccess with fewer goroutines and items.
Goroutines == 2
ItemsPerGoroutine == 1

\* NewSpec and SnapSpec: the keys and values of the caller's maps and slices,
\* and the number of initial maps passed to New.
NumCallerKeys == 2
NumCallerValues == 2
MaxInitialMaps == 2

\* The type parameters, instantiated as New[int, string]: the zero value of V,
\* the empty string, is a legal value of the map.
K == 1..NumKeys
Zero == ""
ValueSet(n) == {Zero} \cup {"value-" \o ToString(i) : i \in 1..(n - 1)}
V == ValueSet(NumValues)

VARIABLES
    data,        \* m.data
    reverseMap,  \* m.reverseMap
    mu,          \* m.mu: w is the goroutine holding the writer side (0: none),
                 \*       readers the goroutines holding a read lock
    pc,          \* each goroutine's position in the method it is running
    call,        \* each goroutine's method, arguments, locals and result
    j,           \* the loop counter of each goroutine of TestConcurrentAccess
    seq,         \* the indexes of a map on which the calls run one at a time,
                 \* each at the moment it takes the lock
    expect,      \* the results the call of each goroutine may have on seq
    last,        \* Spec: the call that has just completed
    initial,     \* NewSpec: initialData, the maps New was called with
    held,        \* SnapSpec: the slice the caller keeps from a read method
    capacity,    \* CapSpec: the capacity NewWithCapacity was called with
    backing,     \* CopySpec: the Go map m.data refers to: 0 is a map made by
                 \* New, i the caller's map initial[i]
    seen         \* TestSeenSpec: for the reader goroutine, the number of
                 \* Set calls that had returned when its Len in progress was
                 \* invoked, and the result of its previous Len

vars == <<data, reverseMap, mu, pc, call, j, seq, expect, last, initial, held, capacity, backing, seen>>

caller == <<initial, held, capacity, backing>>

conc == <<mu, pc, call, j, seq, expect>>

\* ------------------------------------------------- Go's built-in map[..]..
\* make(map[..]..)
MakeMap == [x \in {} |-> x]

\* v, ok := m[k]  (the zero value of the element type when k is absent)
MapIndex(m, k, zero) == IF k \in DOMAIN m THEN <<m[k], TRUE>> ELSE <<zero, FALSE>>

\* m[k] = v
MapAssign(m, k, v) == [x \in (DOMAIN m) \cup {k} |-> IF x = k THEN v ELSE m[x]]

\* delete(m, k)
MapDelete(m, k) == [x \in (DOMAIN m) \ {k} |-> m[x]]

\* All orders in which `for ... range` may visit the set s.
RECURSIVE RangeOrders(_)
RangeOrders(s) ==
    IF s = {} THEN {<<>>}
    ELSE UNION {{<<x>> \o q : q \in RangeOrders(s \ {x})} : x \in s}

\* --------------------------------------------------- removeFromReverseMap
\* delete(keyMap, key): keyMap aliases the bucket stored in reverseMap.
DeleteFromBucket_Noop(rm, key, value) == rm

DeleteFromBucket(rm, key, value) == [rm EXCEPT ![value] = @ \ {key}]

\* if len(keyMap) == 0 { delete(m.reverseMap, value) }
DropEmptyBucket_Never(rm, value) == rm

\* delete(m.reverseMap, value) without the test of len(keyMap).
DropEmptyBucket_Always(rm, value) == MapDelete(rm, value)

DropEmptyBucket(rm, value) == IF Cardinality(rm[value]) = 0 THEN MapDelete(rm, value) ELSE rm

removeFromReverseMap_DropsBucket(rm, key, value) == MapDelete(rm, value)

removeFromReverseMap(rm, key, value) ==
    IF value \in DOMAIN rm
    THEN DropEmptyBucket(DeleteFromBucket(rm, key, value), value)
    ELSE rm

\* -------------------------------------------------------------------- Set
\* if exists && oldValue == value { return }
SetIsNoop_IgnoresExists(oldValue, exists, value) == oldValue = value

SetIsNoop(oldValue, exists, value) == exists /\ oldValue = value

\* if exists { m.removeFromReverseMap(key, oldValue) }
SetUnlinkOld_Skip(rm, key, oldValue, exists) == rm

SetUnlinkOld(rm, key, oldValue, exists) ==
    IF exists THEN removeFromReverseMap(rm, key, oldValue) ELSE rm

\* if m.reverseMap[value] == nil { m.reverseMap[value] = make(map[K]struct{}) }
\* (a stored bucket is never nil, so the lookup is nil exactly when absent)
EnsureBucket_Always(rm, value) == MapAssign(rm, value, {})

\* m.reverseMap = map[V]map[K]struct{}{value: {}} when the bucket is missing:
\* a new reverse index in place of a new bucket.
EnsureBucket_ResetsIndex(rm, value) ==
    IF value \in DOMAIN rm THEN rm ELSE MapAssign(MakeMap, value, {})

EnsureBucket(rm, value) == IF value \notin DOMAIN rm THEN MapAssign(rm, value, {}) ELSE rm

\* m.reverseMap[value] = map[K]struct{}{key: {}}
AddToBucket_Replace(rm, key, value) == [rm EXCEPT ![value] = {key}]

\* m.reverseMap[value][key] = struct{}{}

AddToBucket(rm, key, value) == [rm EXCEPT ![value] = @ \cup {key}]

\* Set without the early return, unlinking the old value after the insertion.
SetResult_UnlinkLast(d, rm, key, value) ==
    LET look == MapIndex(d, key, Zero)
    IN  [data |-> MapAssign(d, key, value),
         reverseMap |-> SetUnlinkOld(AddToBucket(EnsureBucket(rm, value), key, value),
                                     key, look[1], look[2])]

\* The indexes after Set(key, value) on the indexes d, rm.
SetResult(d, rm, key, value) ==
    LET look == MapIndex(d, key, Zero)
        oldValue == look[1]
        exists == look[2]
    IN  IF SetIsNoop(oldValue, exists, value)
        THEN [data |-> d, reverseMap |-> rm]
        ELSE [data |-> MapAssign(d, key, value),
              reverseMap |-> AddToBucket(EnsureBucket(SetUnlinkOld(rm, key, oldValue, exists), value), key, value)]

\* ----------------------------------------------------------------- Remove
\* Remove that forgets delete(m.data, key).
RemoveResult_KeepsData(d, rm, key) ==
    LET look == MapIndex(d, key, Zero)
    IN  IF look[2]
        THEN [data |-> d,
              reverseMap |-> removeFromReverseMap(rm, key, look[1]),
              ret |-> TRUE]
        ELSE [data |-> d, reverseMap |-> rm, ret |-> FALSE]

\* Remove without the test of exists: value := m.data[key], then delete.
RemoveResult_NoExistsCheck(d, rm, key) ==
    LET look == MapIndex(d, key, Zero)
    IN  [data |-> MapDelete(d, key),
         reverseMap |-> removeFromReverseMap(rm, key, look[1]),
         ret |-> TRUE]

RemoveResult(d, rm, key) ==
    LET look == MapIndex(d, key, Zero)
    IN  IF look[2]
        THEN [data |-> MapDelete(d, key),
              reverseMap |-> removeFromReverseMap(rm, key, look[1]),
              ret |-> TRUE]
        ELSE [data |-> d, reverseMap |-> rm, ret |-> FALSE]

\* ------------------------------------------------------------------ reads
\* return val, true
GetResult_FoundAlways(d, key) == <<MapIndex(d, key, Zero)[1], TRUE>>

GetResult(d, key) == MapIndex(d, key, Zero)

\* make([]K, len(keyMap)) followed by append: the keys come after len(keyMap)
\* zero keys.
GetKeysResults_MakeLen(rm, value) ==
    IF value \in DOMAIN rm
    THEN {[i \in 1..Cardinality(rm[value]) |-> 0] \o q : q \in RangeOrders(rm[value])}
    ELSE {<<>>}

\* The slices GetKeys may return: the bucket in any iteration order.
GetKeysResults(rm, value) == IF value \in DOMAIN rm THEN RangeOrders(rm[value]) ELSE {<<>>}

\* make([]K, len(m.data)) followed by append instead of keys[i] = k.
ListResults_Append(d) ==
    {[i \in 1..Cardinality(DOMAIN d) |-> 0] \o q : q \in RangeOrders(DOMAIN d)}

ListResults(d) == RangeOrders(DOMAIN d)

\* Values that ranges over the values' buckets: each value once.
ValuesResults_Dedup(d) == RangeOrders({d[k] : k \in DOMAIN d})

ValuesResults(d) == {[i \in 1..Cardinality(DOMAIN d) |-> d[q[i]]] : q \in RangeOrders(DOMAIN d)}

\* len(m.reverseMap) in place of len(m.data): the number of distinct values.
LenResult_Values(d) == Cardinality({d[k] : k \in DOMAIN d})

LenResult(d) == Cardinality(DOMAIN d)

\* fmt prints a map with its keys sorted: the text is a function of data.
StringResult(d) == <<"Map", Cardinality(DOMAIN d), d>>

\* ----------------------------------------------------------------- slices
\* A slice value: its element type ("K" or "V"), its elements, and the
\* storage that holds them, which is "array" for an array of its own and
\* otherwise the part of the map that the slice is a view of.
Slice(type, store, elems) == [type |-> type, store |-> store, elems |-> elems]

\* var s []K
NoSlice == Slice("K", "array", <<>>)

\* Returning the container the elements were read from, not a copy.
MakeSlice_View(type, from, elems) == Slice(type, from, elems)

\* make([]K, 0, len(keyMap)), make([]K, len(m.data)), make([]V, len(m.data))
\* and []K{}: the elements read from the map go into a new array, which
\* the map keeps no reference to.
MakeSlice(type, from, elems) == Slice(type, "array", elems)

\* The slices GetKeys, List and Values return.
GetKeysSlices(rm, value) ==
    {MakeSlice("K", <<"reverseMap", value>>, q) : q \in GetKeysResults(rm, value)}

ListSlices(d) == {MakeSlice("K", "keys", q) : q \in ListResults(d)}

ValuesSlices(d) == {MakeSlice("V", "values", q) : q \in ValuesResults(d)}

\* What the holder of the slice s may find in it when the indexes are d, rm.
SliceElems(s, d, rm) ==
    CASE s.store = "array" -> {s.elems}
      [] s.store = "keys" -> ListResults(d)
      [] s.store = "values" -> ValuesResults(d)
      [] OTHER -> GetKeysResults(rm, s.store[2])

\* s[i] = x by the holder of the slice s (sort.Strings(keys) does it for
\* every i): the slice and the indexes after it.
SliceAssign(s, i, x, d, rm) ==
    CASE s.store = "array" ->
            [held |-> [s EXCEPT !.elems[i] = x], data |-> d, reverseMap |-> rm]
      [] s.store = "keys" ->
            [held |-> s, data |-> MapDelete(d, s.elems[i]), reverseMap |-> rm]
      [] s.store = "values" ->
            [held |-> s, data |-> [k \in DOMAIN d |-> IF d[k] = s.elems[i] THEN x ELSE d[k]],
             reverseMap |-> rm]
      [] OTHER ->
            [held |-> s, data |-> d,
             reverseMap |-> [rm EXCEPT ![s.store[2]] = (@ \ {s.elems[i]}) \cup {x}]]

\* -------------------------------------------------------------------- New
\* for k, v := range dataMap { ... } on one initial map, from the indexes s.
RECURSIVE NewRange(_, _, _)
NewRange(s, dataMap, todo) ==
    IF todo = {} THEN s
    ELSE LET k == CHOOSE x \in todo : TRUE
             v == dataMap[k]
         IN  NewRange([data |-> MapAssign(s.data, k, v),
                       reverseMap |-> AddToBucket(EnsureBucket(s.reverseMap, v), k, v)],
                      dataMap, todo \ {k})

RECURSIVE NewFrom(_, _)
NewFrom(s, initialData) ==
    IF initialData = <<>> THEN s
    ELSE NewFrom(NewRange(s, Head(initialData), DOMAIN Head(initialData)), Tail(initialData))

New(initialData) == NewFrom([data |-> MakeMap, reverseMap |-> MakeMap], initialData)

\* ------------------------------------------------- the call just completed
\* The results of a call in progress, under the name of the method, so that
\* the results of two methods are never taken for one another.
Result(op, x) == [o \in {op} |-> x]

\* No call, no results.
NoResult == [o \in {} |-> Zero]

\* The results of a method before its body has run: the zero value of its
\* result type (Set has no result).
ResultZero(op) ==
    Result(op, CASE op = "Get" -> <<Zero, FALSE>>
                 [] op \in {"GetKeys", "List", "Values"} -> <<>>
                 [] op = "String" -> <<"", 0, <<>>>>
                 [] op = "Remove" -> FALSE
                 [] OTHER -> 0)

NoCall == [op |-> "New", key |-> 0, value |-> Zero, oldValue |-> Zero, exists |-> FALSE, ret |-> NoResult]

Call(op, key, value, oldValue, exists, ret) ==
    [op |-> op, key |-> key, value |-> value, oldValue |-> oldValue, exists |-> exists, ret |-> ret]

\* New() and New(initial) with one initial map.
InitialData == {<<>>} \cup {<<m>> : m \in UNION {[s -> V] : s \in SUBSET K}}

Init ==
    \E initialData \in InitialData :
        /\ data = New(initialData).data
        /\ reverseMap = New(initialData).reverseMap
        /\ last = NoCall
        /\ mu = [w |-> 0, readers |-> {}]
        /\ pc = [t \in {} |-> "idle"]
        /\ call = [t \in {} |-> NoCall]
        /\ j = [t \in {} |-> 0]
        /\ seq = New(initialData)
        /\ expect = [t \in {} |-> {}]
        /\ initial = <<>>
        /\ held = NoSlice
        /\ backing = 0
        /\ capacity = 0
        /\ seen = <<>>

Set(key, value) ==
    LET r == SetResult(data, reverseMap, key, value)
        look == MapIndex(data, key, Zero)
    IN  /\ data' = r.data
        /\ reverseMap' = r.reverseMap
        /\ last' = Call("Set", key, value, look[1], look[2], 0)
        /\ seq' = r
        /\ UNCHANGED <<mu, pc, call, j, expect, caller, seen>>

Remove(key) ==
    LET r == RemoveResult(data, reverseMap, key)
        look == MapIndex(data, key, Zero)
    IN  /\ data' = r.data
        /\ reverseMap' = r.reverseMap
        /\ last' = Call("Remove", key, Zero, look[1], look[2], r.ret)
        /\ seq' = [data |-> r.data, reverseMap |-> r.reverseMap]
        /\ UNCHANGED <<mu, pc, call, j, expect, caller, seen>>

Get(key) ==
    /\ last' = Call("Get", key, Zero, Zero, FALSE, GetResult(data, key))
    /\ UNCHANGED <<data, reverseMap, conc, caller, seen>>

\* GetKeys looking the bucket up as Set does, making it when it is missing.
GetKeys_CreatesBucket(value) ==
    /\ reverseMap' = EnsureBucket(reverseMap, value)
    /\ \E ret \in GetKeysResults(reverseMap, value) :
          last' = Call("GetKeys", 0, value, Zero, FALSE, ret)
    /\ UNCHANGED <<data, conc, caller, seen>>

GetKeys(value) ==
    /\ \E ret \in GetKeysResults(reverseMap, value) :
          last' = Call("GetKeys", 0, value, Zero, FALSE, ret)
    /\ UNCHANGED <<data, reverseMap, conc, caller, seen>>

List ==
    /\ \E ret \in ListResults(data) : last' = Call("List", 0, Zero, Zero, FALSE, ret)
    /\ UNCHANGED <<data, reverseMap, conc, caller, seen>>

Values ==
    /\ \E ret \in ValuesResults(data) : last' = Call("Values", 0, Zero, Zero, FALSE, ret)
    /\ UNCHANGED <<data, reverseMap, conc, caller, seen>>

LenOp ==
    /\ last' = Call("Len", 0, Zero, Zero, FALSE, LenResult(data))
    /\ UNCHANGED <<data, reverseMap, conc, caller, seen>>

String ==
    /\ last' = Call("String", 0, Zero, Zero, FALSE, StringResult(data))
    /\ UNCHANGED <<data, reverseMap, conc, caller, seen>>

Next ==
    \/ \E key \in K, value \in V : Set(key, value)
    \/ \E key \in K : Remove(key)
    \/ \E key \in K : Get(key)
    \/ \E value \in V : GetKeys(value)
    \/ List
    \/ Values
    \/ LenOp
    \/ String

Spec == Init /\ [][Next]_vars

\* ------------------------------------------------------------ sync.RWMutex
\* Lock() first takes the writer side of the mutex, which excludes the other
\* writers and turns away the readers that arrive from then on ...
CanLockW_Always(m) == TRUE

CanLockW(m) == m.w = 0

\* ... and then waits until the readers that were inside have left.
CanLock_Always(m) == TRUE

CanLock(m) == m.readers = {}

\* RLock() waits while a writer holds the writer side or is waiting for it.
CanRLock_Always(m) == TRUE

CanRLock(m) == m.w = 0

\* ----------------------------------------------- the methods, step by step
Procs == 1..NumProcs

InWrite == {"Set_lookup", "Set_store", "Set_bucket", "Set_add",
            "Remove_lookup", "Remove_delete", "rfr_delete", "rfr_drop", "Unlock"}

InRead == {"Read", "RUnlock"}

\* Go leaves a write to a map undefined while another goroutine reads or
\* writes the map: such a write may also be lost.
Racing(t) == \E u \in DOMAIN pc \ {t} : pc[u] \in InWrite \cup InRead

Written(t, old, new) == IF Racing(t) THEN {old, new} ELSE {new}

Indexes == [data |-> data, reverseMap |-> reverseMap]

\* What a read method returns on the indexes d, rm.
ReadResults(c, d, rm) ==
    CASE c.op = "Get" -> {GetResult(d, c.key)}
      [] c.op = "GetKeys" -> GetKeysResults(rm, c.value)
      [] c.op = "List" -> ListResults(d)
      [] c.op = "Values" -> ValuesResults(d)
      [] c.op = "Len" -> {LenResult(d)}
      [] c.op = "String" -> {StringResult(d)}

\* What a write method leaves and returns on the indexes s.
WriteResult(c, s) ==
    IF c.op = "Set"
    THEN LET r == SetResult(s.data, s.reverseMap, c.key, c.value)
         IN  [data |-> r.data, reverseMap |-> r.reverseMap, ret |-> 0]
    ELSE RemoveResult(s.data, s.reverseMap, c.key)

Goto(t, label) == pc' = [pc EXCEPT ![t] = label]

RECURSIVE Sum(_, _)
Sum(f, ts) ==
    IF ts = {} THEN 0
    ELSE LET t == CHOOSE x \in ts : TRUE
         IN  f[t] + Sum(f, ts \ {t})

\* The Set calls the goroutines of the test have invoked, j counting those of
\* each goroutine, and those of them that have returned.
SetsInvoked == Sum(j, DOMAIN j)

SetsReturned == SetsInvoked - Cardinality({t \in DOMAIN call : call[t].op = "Set"})

\* A goroutine calls a method of the map.
Invoke(t, c) ==
    /\ pc[t] = "idle"
    /\ Goto(t, IF c.op \in {"Set", "Remove"} THEN "Lock" ELSE "RLock")
    /\ call' = [call EXCEPT ![t] = c]
    /\ seen' = IF t \in DOMAIN seen /\ c.op = "Len"
               THEN [seen EXCEPT ![t].lo = SetsReturned]
               ELSE seen
    /\ UNCHANGED <<data, reverseMap, mu, seq, expect, last, caller>>

\* m.mu.Lock()
LockW(t) ==
    /\ pc[t] = "Lock"
    /\ CanLockW(mu)
    /\ mu' = [mu EXCEPT !.w = t]
    /\ Goto(t, "LockWait")
    /\ UNCHANGED <<data, reverseMap, call, j, seq, expect, last, caller, seen>>

LockAcquire(t) ==
    /\ pc[t] = "LockWait"
    /\ CanLock(mu)
    /\ Goto(t, IF call[t].op = "Set" THEN "Set_lookup" ELSE "Remove_lookup")
    /\ LET r == WriteResult(call[t], seq)
       IN  /\ seq' = [data |-> r.data, reverseMap |-> r.reverseMap]
           /\ expect' = [expect EXCEPT ![t] = {Result(call[t].op, r.ret)}]
    /\ UNCHANGED <<data, reverseMap, mu, call, j, last, caller, seen>>

\* Where a return in the middle of Set or Remove goes. The unlock is
\* deferred, so it runs on every return; with the unlock as the last
\* statement of the method instead, an early return would skip it.
EarlyReturn_SkipsUnlock == "idle"

EarlyReturn == "Unlock"

\* oldValue, exists := m.data[key]; if exists && oldValue == value { return }
SetLookup(t) ==
    /\ pc[t] = "Set_lookup"
    /\ LET look == MapIndex(data, call[t].key, Zero)
       IN  /\ Goto(t, IF SetIsNoop(look[1], look[2], call[t].value) THEN EarlyReturn
                      ELSE IF look[2] THEN "rfr_delete" ELSE "Set_store")
           /\ call' = [call EXCEPT ![t].oldValue = look[1], ![t].exists = look[2]]
    /\ UNCHANGED <<data, reverseMap, mu, j, seq, expect, last, caller, seen>>

\* removeFromReverseMap taking m.mu.Lock() itself, although its caller
\* holds the lock already: sync.RWMutex is not reentrant.
RfrDelete_Locks(t) ==
    /\ pc[t] = "rfr_delete"
    /\ CanLockW(mu)
    /\ mu' = [mu EXCEPT !.w = t]
    /\ Goto(t, "rfr_drop")
    /\ UNCHANGED <<data, reverseMap, call, j, seq, expect, last, caller, seen>>

\* removeFromReverseMap: if keyMap, exists := ...; exists { delete(keyMap, key)
RfrDelete(t) ==
    /\ pc[t] = "rfr_delete"
    /\ IF call[t].oldValue \in DOMAIN reverseMap
       THEN /\ reverseMap' \in Written(t, reverseMap,
                                       DeleteFromBucket(reverseMap, call[t].key, call[t].oldValue))
            /\ Goto(t, "rfr_drop")
            /\ UNCHANGED call
       ELSE /\ UNCHANGED reverseMap
            /\ Goto(t, IF call[t].op = "Set" THEN "Set_store" ELSE "Unlock")
            /\ call' = [call EXCEPT ![t].ret = Result(call[t].op, IF call[t].op = "Set" THEN 0 ELSE TRUE)]
    /\ UNCHANGED <<data, mu, j, seq, expect, last, caller, seen>>

\* removeFromReverseMap: if len(keyMap) == 0 { delete(m.reverseMap, value) },
\* and back in the caller: Set goes on, Remove returns true.
RfrDrop(t) ==
    /\ pc[t] = "rfr_drop"
    /\ reverseMap' \in Written(t, reverseMap, DropEmptyBucket(reverseMap, call[t].oldValue))
    /\ Goto(t, IF call[t].op = "Set" THEN "Set_store" ELSE "Unlock")
    /\ call' = [call EXCEPT ![t].ret = Result(call[t].op, IF call[t].op = "Set" THEN 0 ELSE TRUE)]
    /\ UNCHANGED <<data, mu, j, seq, expect, last, caller, seen>>

\* m.data[key] = value
SetStore(t) ==
    /\ pc[t] = "Set_store"
    /\ data' \in Written(t, data, MapAssign(data, call[t].key, call[t].value))
    /\ Goto(t, "Set_bucket")
    /\ UNCHANGED <<reverseMap, mu, call, j, seq, expect, last, caller, seen>>

\* if m.reverseMap[value] == nil { m.reverseMap[value] = make(map[K]struct{}) }
SetBucket(t) ==
    /\ pc[t] = "Set_bucket"
    /\ reverseMap' \in Written(t, reverseMap, EnsureBucket(reverseMap, call[t].value))
    /\ Goto(t, "Set_add")
    /\ UNCHANGED <<data, mu, call, j, seq, expect, last, caller, seen>>

\* m.reverseMap[value][key] = struct{}{}
SetAdd(t) ==
    /\ pc[t] = "Set_add"
    /\ reverseMap' \in Written(t, reverseMap, AddToBucket(reverseMap, call[t].key, call[t].value))
    /\ Goto(t, "Unlock")
    /\ UNCHANGED <<data, mu, call, j, seq, expect, last, caller, seen>>

\* if value, exists := m.data[key]; exists { ... } return false
RemoveLookup(t) ==
    /\ pc[t] = "Remove_lookup"
    /\ LET look == MapIndex(data, call[t].key, Zero)
       IN  IF look[2]
           THEN /\ Goto(t, "Remove_delete")
                /\ call' = [call EXCEPT ![t].oldValue = look[1], ![t].exists = TRUE]
           ELSE /\ Goto(t, EarlyReturn)
                /\ call' = [call EXCEPT ![t].ret = Result("Remove", FALSE)]
    /\ UNCHANGED <<data, reverseMap, mu, j, seq, expect, last, caller, seen>>

\* Remove giving the lock back before it calls removeFromReverseMap.
RemoveDelete_Unlocks(t) ==
    /\ pc[t] = "Remove_delete"
    /\ data' \in Written(t, data, MapDelete(data, call[t].key))
    /\ mu' = [mu EXCEPT !.w = 0]
    /\ Goto(t, "rfr_delete")
    /\ UNCHANGED <<reverseMap, call, j, seq, expect, last, caller, seen>>

\* delete(m.data, key); m.removeFromReverseMap(key, value)
RemoveDelete(t) ==
    /\ pc[t] = "Remove_delete"
    /\ data' \in Written(t, data, MapDelete(data, call[t].key))
    /\ Goto(t, "rfr_delete")
    /\ UNCHANGED <<reverseMap, mu, call, j, seq, expect, last, caller, seen>>

\* defer m.mu.Unlock(), and the method returns.
Unlock(t) ==
    /\ pc[t] = "Unlock"
    /\ mu' = [mu EXCEPT !.w = 0]
    /\ Goto(t, "idle")
    /\ call' = [call EXCEPT ![t] = NoCall]
    /\ expect' = [expect EXCEPT ![t] = {}]
    /\ UNCHANGED <<data, reverseMap, j, seq, last, caller, seen>>

\* m.mu.RLock()
RLock(t) ==
    /\ pc[t] = "RLock"
    /\ CanRLock(mu)
    /\ mu' = [mu EXCEPT !.readers = @ \cup {t}]
    /\ Goto(t, "Read")
    /\ UNCHANGED <<data, reverseMap, call, j, seq, expect, last, caller, seen>>

\* The body of Get, GetKeys, List, Values, Len or String.
Read(t) ==
    /\ pc[t] = "Read"
    /\ Goto(t, "RUnlock")
    /\ \E ret \in ReadResults(call[t], data, reverseMap) :
          call' = [call EXCEPT ![t].ret = Result(call[t].op, ret)]
    /\ expect' = [expect EXCEPT ![t] = {Result(call[t].op, ret) :
                                        ret \in ReadResults(call[t], seq.data, seq.reverseMap)}]
    /\ UNCHANGED <<data, reverseMap, mu, j, seq, last, caller, seen>>

\* defer m.mu.RUnlock(), and the method returns.
RUnlock(t) ==
    /\ pc[t] = "RUnlock"
    /\ mu' = [mu EXCEPT !.readers = @ \ {t}]
    /\ Goto(t, "idle")
    /\ call' = [call EXCEPT ![t] = NoCall]
    /\ expect' = [expect EXCEPT ![t] = {}]
    /\ seen' = IF t \in DOMAIN seen /\ call[t].op = "Len"
               THEN [seen EXCEPT ![t] = [lo |-> 0, prev |-> call[t].ret["Len"]]]
               ELSE seen
    /\ UNCHANGED <<data, reverseMap, j, seq, last, caller>>

\* The steps of Set on a key that is absent, and of the read methods.
InsertStep(t) ==
    \/ LockW(t)
    \/ LockAcquire(t)
    \/ SetLookup(t)
    \/ SetStore(t)
    \/ SetBucket(t)
    \/ SetAdd(t)
    \/ Unlock(t)
    \/ RLock(t)
    \/ Read(t)
    \/ RUnlock(t)

\* The steps of Remove, and of Set on a key that is present.
Step(t) ==
    \/ InsertStep(t)
    \/ RfrDelete(t)
    \/ RfrDrop(t)
    \/ RemoveLookup(t)
    \/ RemoveDelete(t)

\* ---------------------------------- ConcSpec: goroutines calling any method
ConcK == 1..NumConcKeys

ConcV == ValueSet(NumConcValues)

Calls ==
    {Call("Set", key, value, Zero, FALSE, ResultZero("Set")) : key \in ConcK, value \in ConcV}
    \cup {Call("Remove", key, Zero, Zero, FALSE, ResultZero("Remove")) : key \in ConcK}
    \cup {Call("Get", key, Zero, Zero, FALSE, ResultZero("Get")) : key \in ConcK}
    \cup {Call("GetKeys", 0, value, Zero, FALSE, ResultZero("GetKeys")) : value \in ConcV}
    \cup {Call(op, 0, Zero, Zero, FALSE, ResultZero(op)) : op \in {"List", "Values", "Len", "String"}}

ConcInit ==
    /\ data = New(<<>>).data
    /\ reverseMap = New(<<>>).reverseMap
    /\ mu = [w |-> 0, readers |-> {}]
    /\ pc = [t \in Procs |-> "idle"]
    /\ call = [t \in Procs |-> NoCall]
    /\ j = [t \in Procs |-> 0]
    /\ seq = New(<<>>)
    /\ expect = [t \in Procs |-> {}]
    /\ last = NoCall
    /\ initial = <<>>
    /\ held = NoSlice
    /\ backing = 0
    /\ capacity = 0
    /\ seen = <<>>

ConcInvoke(t) == \E c \in Calls : Invoke(t, c) /\ UNCHANGED j

ConcNext == \E t \in Procs : ConcInvoke(t) \/ Step(t)

ConcSpec == ConcInit /\ [][ConcNext]_vars

\* ------------------------------------------ TestSpec: TestConcurrentAccess
\* Goroutine id (process id + 1) sets the keys id*itemsPerGoroutine + j to
\* fmt.Sprintf("value-%d-%d", id, j); a reader goroutine keeps calling the
\* read methods of the test and of ExampleMap_concurrent; the test's own
\* goroutine (process 0) calls Len once the writers have returned. The keys
\* are fresh, so no call of the test reaches removeFromReverseMap.
TestWriters == 1..Goroutines

TestReader == Goroutines + 1

TestMain == 0

TestProcs == {TestMain, TestReader} \cup TestWriters

TestKey(id, n) == id * ItemsPerGoroutine + n

TestValue(id, n) == "value-" \o ToString(id) \o "-" \o ToString(n)

TestReads ==
    {Call(op, 0, Zero, Zero, FALSE, ResultZero(op)) : op \in {"Len", "List", "Values"}}
    \cup {Call("GetKeys", 0, value, Zero, FALSE, ResultZero("GetKeys")) : value \in {"test", TestValue(0, 0)}}

WritersDone == \A t \in TestWriters : pc[t] = "idle" /\ j[t] = ItemsPerGoroutine

TestInit ==
    /\ data = New(<<>>).data
    /\ reverseMap = New(<<>>).reverseMap
    /\ mu = [w |-> 0, readers |-> {}]
    /\ pc = [t \in TestProcs |-> "idle"]
    /\ call = [t \in TestProcs |-> NoCall]
    /\ j = [t \in TestProcs |-> 0]
    /\ seq = New(<<>>)
    /\ expect = [t \in TestProcs |-> {}]
    /\ last = NoCall
    /\ initial = <<>>
    /\ held = NoSlice
    /\ backing = 0
    /\ capacity = 0
    /\ seen = <<>>

\* for j := 0; j < itemsPerGoroutine; j++ { m.Set(key, value) }
TestWrite(t) ==
    /\ j[t] < ItemsPerGoroutine
    /\ Invoke(t, Call("Set", TestKey(t - 1, j[t]), TestValue(t - 1, j[t]), Zero, FALSE, ResultZero("Set")))
    /\ j' = [j EXCEPT ![t] = @ + 1]

TestRead(t) == \E c \in TestReads : Invoke(t, c) /\ UNCHANGED j

\* wg.Wait(); m.Len()
TestLen(t) ==
    /\ WritersDone
    /\ Invoke(t, Call("Len", 0, Zero, Zero, FALSE, ResultZero("Len")))
    /\ UNCHANGED j

TestNext ==
    \/ \E t \in TestWriters : TestWrite(t)
    \/ TestRead(TestReader)
    \/ TestLen(TestMain)
    \/ \E t \in TestProcs : InsertStep(t)

TestSpec == TestInit /\ [][TestNext]_vars

\* ------------------------------------------------------------ invariants
\* I1: every key of the forward index is in the bucket of its value.
I1 == \A k \in DOMAIN data : data[k] \in DOMAIN reverseMap /\ k \in reverseMap[data[k]]

\* I2: no bucket of the reverse index is empty.
I2 == \A v \in DOMAIN reverseMap : reverseMap[v] # {}

\* I3: every key of a bucket maps to the bucket's value.
I3 == \A v \in DOMAIN reverseMap : \A k \in reverseMap[v] : k \in DOMAIN data /\ data[k] = v

RECURSIVE BucketSizes(_, _)
BucketSizes(rm, vs) ==
    IF vs = {} THEN 0
    ELSE LET v == CHOOSE x \in vs : TRUE
         IN  Cardinality(rm[v]) + BucketSizes(rm, vs \ {v})

\* I4: the forward index has as many entries as the buckets have keys.
I4 == Cardinality(DOMAIN data) = BucketSizes(reverseMap, DOMAIN reverseMap)

KeysOf(v) == {k \in DOMAIN data : data[k] = v}

Range(q) == {q[i] : i \in DOMAIN q}

\* C1: after any sequence of Set and Remove calls on a map from New, the
\* reverse index is exactly the inverse image of the forward index: a value
\* has a bucket iff some key maps to it, and the bucket is { k | data[k] = v }.
C1_ReverseIsInverseImage ==
    \A v \in V \cup DOMAIN reverseMap :
        /\ v \in DOMAIN reverseMap <=> KeysOf(v) # {}
        /\ v \in DOMAIN reverseMap => reverseMap[v] = KeysOf(v)

\* A Remove has taken one key out of a bucket that keeps another key.
C1_Witness ==
    /\ last.op = "Remove" /\ last.ret = TRUE
    /\ last.oldValue \in DOMAIN reverseMap
    /\ Cardinality(DOMAIN data) >= 2

\* C2: the reverse index never holds an empty bucket; once the last key of a
\* value has been removed or re-pointed, that value has no bucket at all.
C2_NoEmptyBucket ==
    /\ I2
    /\ (last.op = "Remove" /\ last.exists /\ KeysOf(last.oldValue) = {})
            => last.oldValue \notin DOMAIN reverseMap
    /\ (last.op = "Set" /\ last.exists /\ KeysOf(last.oldValue) = {})
            => last.oldValue \notin DOMAIN reverseMap

\* The last key of a value has just been re-pointed to another value.
C2_Witness ==
    /\ last.op = "Set" /\ last.exists /\ last.oldValue # last.value
    /\ KeysOf(last.oldValue) = {}
    /\ last.oldValue \notin DOMAIN reverseMap

\* C3: the forward index has as many entries as the buckets hold keys: every
\* key is in exactly one bucket and the buckets are pairwise disjoint.
C3_SizesAgree ==
    /\ I4
    /\ \A k \in DOMAIN data : Cardinality({v \in DOMAIN reverseMap : k \in reverseMap[v]}) = 1
    /\ \A v, w \in DOMAIN reverseMap : v # w => reverseMap[v] \cap reverseMap[w] = {}

\* A key has moved between two buckets that both still exist.
C3_Witness ==
    /\ last.op = "Set" /\ last.exists /\ last.oldValue # last.value
    /\ last.oldValue \in DOMAIN reverseMap
    /\ Cardinality(reverseMap[last.value]) >= 2

\* C7: Set(k, v) immediately followed by Get(k) returns (v, true), whether k
\* was absent, present with v, or present with another value.
C7_SetThenGet == last.op = "Set" => GetResult(data, last.key) = <<last.value, TRUE>>

\* Set has just stored the zero value of V under a key that was absent.
C7_Witness == last.op = "Set" /\ ~last.exists /\ last.value = Zero

\* C8: Set(k, v) when k already maps to v changes neither index, so Len(),
\* GetKeys(v) and the buckets are the same before and after.
C8_SameValueNoop ==
    [][(last'.op = "Set" /\ last'.exists /\ last'.oldValue = last'.value)
        => /\ data' = data
           /\ reverseMap' = reverseMap
           /\ LenResult(data') = LenResult(data)
           /\ GetKeysResults(reverseMap', last'.value) = GetKeysResults(reverseMap, last'.value)]_vars

\* Set has just been called with the value its key already had.
C8_Witness ==
    /\ last.op = "Set" /\ last.exists /\ last.oldValue = last.value
    /\ last.key \in reverseMap[last.value]

\* C9: Set(k, new) when k maps to another value old moves k from the bucket
\* of old (deleted if k was its only key) to the bucket of new; Get(k) is
\* (new, true) and Len() is unchanged.
C9_MoveBetweenBuckets ==
    [][(last'.op = "Set" /\ last'.exists /\ last'.oldValue # last'.value)
        => LET k == last'.key
               old == last'.oldValue
               new == last'.value
           IN  /\ \A q \in GetKeysResults(reverseMap', old) : k \notin Range(q)
               /\ reverseMap[old] = {k} => old \notin DOMAIN reverseMap'
               /\ reverseMap[old] # {k} => reverseMap'[old] = reverseMap[old] \ {k}
               /\ \A q \in GetKeysResults(reverseMap', new) : k \in Range(q)
               /\ GetResult(data', k) = <<new, TRUE>>
               /\ LenResult(data') = LenResult(data)]_vars

\* Set has just moved a key out of a bucket that held only that key.
C9_Witness ==
    /\ last.op = "Set" /\ last.exists /\ last.oldValue # last.value
    /\ last.oldValue \notin DOMAIN reverseMap
    /\ last.key \in reverseMap[last.value]

\* C10: Set(k, v) when k is absent adds k -> v to the forward index and k to
\* the bucket of v, which is created if v had no keys and otherwise keeps
\* its keys; Len() grows by exactly one.
C10_InsertAbsent ==
    [][(last'.op = "Set" /\ ~last'.exists)
        => LET k == last'.key
               v == last'.value
           IN  /\ k \notin DOMAIN data
               /\ data' = MapAssign(data, k, v)
               /\ reverseMap'[v] = (IF v \in DOMAIN reverseMap THEN reverseMap[v] ELSE {}) \cup {k}
               /\ \A w \in DOMAIN reverseMap \ {v} : w \in DOMAIN reverseMap' /\ reverseMap'[w] = reverseMap[w]
               /\ DOMAIN reverseMap' = DOMAIN reverseMap \cup {v}
               /\ LenResult(data') = LenResult(data) + 1]_vars

\* Set has just added an absent key to a bucket that already had a key.
C10_Witness ==
    /\ last.op = "Set" /\ ~last.exists
    /\ Cardinality(reverseMap[last.value]) >= 2

\* C4: with Set and Remove taken step by step, every state in which a read
\* method holds the read lock (the states it reads) satisfies I1-I4.
C4_ReadersSeeInvariants ==
    (\E t \in DOMAIN pc : pc[t] \in InRead) => (I1 /\ I2 /\ I3 /\ I4)

\* A reader has read a map with entries while a writer waits for it to leave.
C4_Witness ==
    \E t, u \in DOMAIN pc :
        /\ pc[t] = "RUnlock" /\ pc[u] = "LockWait"
        /\ DOMAIN data # {}

\* C5: the calls are linearizable. Each call takes effect on seq, a map on
\* which the calls run one at a time, at one step between its invocation and
\* its return (a writer's when it gets the lock, a reader's when it reads);
\* every call returns a result it has on seq at that step, and the indexes
\* are those of seq whenever no writer is in the middle of its changes.
C5_Linearizable ==
    /\ \A t \in DOMAIN pc : pc[t] \in {"RUnlock", "Unlock"} => call[t].ret \in expect[t]
    /\ (\A t \in DOMAIN pc : pc[t] \in InWrite => pc[t] = "Unlock") => seq = Indexes

\* Remove has returned true to one goroutine while another, which called a
\* read method in the meantime, still waits for the lock.
C5_Witness ==
    \E t, u \in DOMAIN pc :
        /\ pc[t] = "Unlock" /\ call[t].op = "Remove" /\ call[t].ret = Result("Remove", TRUE)
        /\ pc[u] = "RLock" /\ call[u].op = "Get" /\ call[u].key = call[t].key

\* C6: when the goroutines of the test each Set their own fresh keys while
\* others read, then once all writers have returned the map holds every key
\* and every Len() that returns reports their number.
C6_NoInsertLost ==
    WritersDone =>
        /\ LenResult(data) = Goroutines * ItemsPerGoroutine
        /\ \A t \in DOMAIN pc :
              (pc[t] = "RUnlock" /\ call[t].op = "Len")
                  => call[t].ret = Result("Len", Goroutines * ItemsPerGoroutine)

\* The test's final Len() has read the map while the reader goroutine is
\* inside a read method too.
C6_Witness ==
    /\ WritersDone
    /\ pc[TestMain] = "RUnlock"
    /\ pc[TestReader] \in InRead

\* ------------------------------------------------- results of the methods
\* The slice q holds no element twice.
NoDuplicates(q) == \A a, b \in DOMAIN q : q[a] = q[b] => a = b

\* How many times x is in the slice q.
Count(q, x) == Cardinality({a \in DOMAIN q : q[a] = x})

\* C11: Remove(k) when k maps to v returns true, deletes k from the forward
\* index (Get(k) then finds nothing), takes k out of the bucket of v keeping
\* its other keys, deletes that bucket if k was its last key, leaves the
\* other buckets alone, and Len() shrinks by exactly one.
C11_RemovePresent ==
    [][(last'.op = "Remove" /\ last'.key \in DOMAIN data)
        => LET k == last'.key
               v == data[k]
           IN  /\ last'.ret = TRUE
               /\ data' = MapDelete(data, k)
               /\ GetResult(data', k)[2] = FALSE
               /\ reverseMap[v] # {k} =>
                     v \in DOMAIN reverseMap' /\ reverseMap'[v] = reverseMap[v] \ {k}
               /\ reverseMap[v] = {k} => v \notin DOMAIN reverseMap'
               /\ \A w \in DOMAIN reverseMap \ {v} :
                     w \in DOMAIN reverseMap' /\ reverseMap'[w] = reverseMap[w]
               /\ DOMAIN reverseMap' \subseteq DOMAIN reverseMap
               /\ LenResult(data') = LenResult(data) - 1]_vars

\* Remove has just returned true for a key whose value still has other keys.
C11_Witness ==
    /\ last.op = "Remove" /\ last.ret = TRUE
    /\ last.oldValue \in DOMAIN reverseMap
    /\ last.key \notin DOMAIN data

\* C12: Remove(k) when k is absent returns false and changes neither the
\* forward index nor any reverse bucket; a Remove(k) that directly follows
\* a Remove(k) that returned true returns false.
C12_RemoveAbsent ==
    [][/\ (last'.op = "Remove" /\ last'.key \notin DOMAIN data)
            => /\ last'.ret = FALSE
               /\ data' = data
               /\ reverseMap' = reverseMap
       /\ (last'.op = "Remove" /\ last.op = "Remove" /\ last.key = last'.key /\ last.ret = TRUE)
            => last'.ret = FALSE]_vars

\* Remove has just returned false on a map that holds other keys.
C12_Witness ==
    /\ last.op = "Remove" /\ ~last.exists /\ last.ret = FALSE
    /\ DOMAIN data # {}

\* C13: Get(k) returns (data[k], true) when k is present and (zero, false)
\* when it is absent, also on a new empty map and right after Remove(k); it
\* reports found = true only for keys of the forward index.
C13_GetFound ==
    [][last'.op = "Get"
        => LET k == last'.key
           IN  /\ k \in DOMAIN data => last'.ret = <<data[k], TRUE>>
               /\ k \notin DOMAIN data => last'.ret = <<Zero, FALSE>>
               /\ (last.op = "New" /\ DOMAIN data = {}) => last'.ret = <<Zero, FALSE>>
               /\ (last.op = "Remove" /\ last.key = k) => last'.ret = <<Zero, FALSE>>
               /\ last'.ret[2] = TRUE => k \in DOMAIN data]_vars

\* Get has just found a key that holds the zero value of V.
C13_Witness == last.op = "Get" /\ last.ret = <<Zero, TRUE>>

\* C14: GetKeys(v) returns, without duplicates, exactly the keys k for which
\* Get(k) is (v, true), whatever the iteration order; it is the empty slice
\* when no key maps to v.
C14_GetKeysExact ==
    /\ \A v \in V : \A q \in GetKeysResults(reverseMap, v) :
          /\ Range(q) = {k \in K : GetResult(data, k) = <<v, TRUE>>}
          /\ NoDuplicates(q)
          /\ KeysOf(v) = {} => q = <<>>
    /\ last.op = "GetKeys" =>
          /\ Range(last.ret) = {k \in K : GetResult(data, k) = <<last.value, TRUE>>}
          /\ NoDuplicates(last.ret)

\* GetKeys has just returned two keys of a map that holds a third key.
C14_Witness ==
    /\ last.op = "GetKeys" /\ Len(last.ret) = 2
    /\ DOMAIN data # Range(last.ret)

\* C16: List() returns every key of the forward index exactly once and
\* nothing else; its length is Len().
C16_ListExact ==
    /\ \A q \in ListResults(data) :
          /\ Range(q) = DOMAIN data
          /\ NoDuplicates(q)
          /\ Len(q) = LenResult(data)
    /\ last.op = "List" =>
          /\ Range(last.ret) = DOMAIN data
          /\ NoDuplicates(last.ret)
          /\ Len(last.ret) = LenResult(data)

\* List has just returned the keys of a map that holds every key.
C16_Witness == last.op = "List" /\ Range(last.ret) = K

\* C17: Values() returns one entry per key: each value as many times as it
\* has keys in the forward index, so its length is Len().
C17_ValuesPerKey ==
    /\ \A q \in ValuesResults(data) :
          /\ \A v \in V : Count(q, v) = Cardinality(KeysOf(v))
          /\ Len(q) = LenResult(data)
    /\ last.op = "Values" =>
          /\ \A v \in V : Count(last.ret, v) = Cardinality(KeysOf(v))
          /\ Len(last.ret) = LenResult(data)

\* Values has just returned a value twice.
C17_Witness == last.op = "Values" /\ \E v \in V : Count(last.ret, v) >= 2

\* C18: Len() is the number of keys of the forward index: 0 on a new empty
\* map, one more after a Set of an absent key, the same after a Set of a
\* present key and after a Remove of an absent key, one less after a Remove
\* of a present key, never negative.
C18_LenCountsKeys ==
    [][/\ last'.op = "Len" => last'.ret = Cardinality(DOMAIN data) /\ last'.ret >= 0
       /\ (last'.op = "Len" /\ last.op = "New" /\ DOMAIN data = {}) => last'.ret = 0
       /\ (last'.op = "Set" /\ last'.key \notin DOMAIN data)
            => LenResult(data') = LenResult(data) + 1
       /\ (last'.op = "Set" /\ last'.key \in DOMAIN data)
            => LenResult(data') = LenResult(data)
       /\ (last'.op = "Remove" /\ last'.key \notin DOMAIN data)
            => LenResult(data') = LenResult(data)
       /\ (last'.op = "Remove" /\ last'.key \in DOMAIN data)
            => LenResult(data') = LenResult(data) - 1
       /\ LenResult(data') >= 0]_vars

\* Len has just counted a map in which two keys share a value.
C18_Witness ==
    /\ last.op = "Len" /\ last.ret >= 2
    /\ \E v \in V : Cardinality(KeysOf(v)) >= 2

\* C20: a goroutine is inside Set or Remove from the step that gets it the
\* lock to its Unlock, and inside a read method from RLock to RUnlock. At
\* most one goroutine is inside Set or Remove, and then none is inside a
\* read method; any number may be inside read methods together.
Writers == {t \in DOMAIN pc : pc[t] \in InWrite}

Readers == {t \in DOMAIN pc : pc[t] \in InRead}

C20_Exclusion ==
    /\ Cardinality(Writers) <= 1
    /\ Writers # {} => Readers = {}

\* Two goroutines are inside read methods at once.
C20_Witness == Cardinality(Readers) >= 2 /\ Writers = {}

\* --------------------------------------------------------------------- New
\* New(initialData ...map[K]V), one step per initial map: the outer loop of
\* New, `for _, dataMap := range initialData`, with the inner loop over the
\* pairs of dataMap as NewRange. The Map is not shared before New returns.
CallerK == 1..NumCallerKeys

CallerV == ValueSet(NumCallerValues)

CallerMaps == UNION {[s -> CallerV] : s \in SUBSET CallerK}

NewInitialData == UNION {[1..n -> CallerMaps] : n \in 0..MaxInitialMaps}

\* The goroutine that calls New.
NewCaller == 0

\* m := &Map[K, V]{data: make(map[K]V), reverseMap: make(map[V]map[K]struct{})}
NewInit ==
    \E initialData \in NewInitialData :
        /\ initial = initialData
        /\ data = MakeMap
        /\ reverseMap = MakeMap
        /\ mu = [w |-> 0, readers |-> {}]
        /\ pc = [t \in {NewCaller} |-> "New_range"]
        /\ call = [t \in {NewCaller} |-> NoCall]
        /\ j = [t \in {NewCaller} |-> 0]
        /\ seq = [data |-> MakeMap, reverseMap |-> MakeMap]
        /\ expect = [t \in {NewCaller} |-> {}]
        /\ last = NoCall
        /\ held = NoSlice
        /\ backing = 0
        /\ capacity = 0
        /\ seen = <<>>

\* for _, dataMap := range initialData { for k, v := range dataMap { ... } }
NewLoop(t) ==
    /\ pc[t] = "New_range"
    /\ j[t] < Len(initial)
    /\ LET dataMap == initial[j[t] + 1]
           s == NewRange(Indexes, dataMap, DOMAIN dataMap)
       IN  /\ data' = s.data
           /\ reverseMap' = s.reverseMap
           /\ seq' = s
    /\ j' = [j EXCEPT ![t] = @ + 1]
    /\ UNCHANGED <<mu, pc, call, expect, last, caller, seen>>

\* return m
NewReturn(t) ==
    /\ pc[t] = "New_range"
    /\ j[t] = Len(initial)
    /\ Goto(t, "idle")
    /\ UNCHANGED <<data, reverseMap, mu, call, j, seq, expect, last, caller, seen>>

NewNext == NewLoop(NewCaller) \/ NewReturn(NewCaller)

NewSpec == NewInit /\ [][NewNext]_vars

\* C19: when New returns, New() has built an empty map with Len() = 0, and
\* New(initial) with one initial map a map on which I1-I4 hold, Len() is
\* the number of pairs of initial, Get(k) is (initial[k], true) for every
\* key k of initial, and GetKeys(v) holds exactly the keys initial maps to v.
C19_NewOneMap ==
    pc[NewCaller] = "idle" =>
        /\ Len(initial) = 0 =>
              /\ data = MakeMap
              /\ reverseMap = MakeMap
              /\ LenResult(data) = 0
        /\ Len(initial) = 1 =>
              LET m == initial[1]
              IN  /\ I1 /\ I2 /\ I3 /\ I4
                  /\ LenResult(data) = Cardinality(DOMAIN m)
                  /\ \A k \in DOMAIN m : GetResult(data, k) = <<m[k], TRUE>>
                  /\ \A v \in CallerV : \A q \in GetKeysResults(reverseMap, v) :
                        Range(q) = {k \in DOMAIN m : m[k] = v}

\* New has returned a map built from one initial map in which two keys
\* share a value.
C19_Witness ==
    /\ pc[NewCaller] = "idle"
    /\ Len(initial) = 1
    /\ \E v \in CallerV : Cardinality({k \in DOMAIN initial[1] : initial[1][k] = v}) >= 2

\* ------------------------------- the methods on a map from variadic New
\* The calls of Spec, one at a time, on the map New returns when called with
\* up to MaxInitialMaps initial maps, which may share keys.
VariadicInit ==
    \E initialData \in NewInitialData :
        /\ data = New(initialData).data
        /\ reverseMap = New(initialData).reverseMap
        /\ last = NoCall
        /\ mu = [w |-> 0, readers |-> {}]
        /\ pc = [t \in {} |-> "idle"]
        /\ call = [t \in {} |-> NoCall]
        /\ j = [t \in {} |-> 0]
        /\ seq = New(initialData)
        /\ expect = [t \in {} |-> {}]
        /\ initial = <<>>
        /\ held = NoSlice
        /\ backing = 0
        /\ capacity = 0
        /\ seen = <<>>

VariadicSpec == VariadicInit /\ [][Next]_vars

\* The goroutines of ConcSpec on such a map.
ConcInitialData ==
    UNION {[1..n -> UNION {[s -> ConcV] : s \in SUBSET ConcK}] : n \in 0..MaxInitialMaps}

VariadicConcInit ==
    \E initialData \in ConcInitialData :
        /\ data = New(initialData).data
        /\ reverseMap = New(initialData).reverseMap
        /\ mu = [w |-> 0, readers |-> {}]
        /\ pc = [t \in Procs |-> "idle"]
        /\ call = [t \in Procs |-> NoCall]
        /\ j = [t \in Procs |-> 0]
        /\ seq = New(initialData)
        /\ expect = [t \in Procs |-> {}]
        /\ last = NoCall
        /\ initial = <<>>
        /\ held = NoSlice
        /\ backing = 0
        /\ capacity = 0
        /\ seen = <<>>

VariadicConcSpec == VariadicConcInit /\ [][ConcNext]_vars

\* The value the last of the initial maps that hold k gives it.
LastWritten(k) ==
    LET i == CHOOSE n \in DOMAIN initial :
                 /\ k \in DOMAIN initial[n]
                 /\ \A m \in DOMAIN initial : k \in DOMAIN initial[m] => m <= n
    IN  initial[i][k]

\* C25: when New returns, called with any number of initial maps, every key
\* of an initial map has the value of the last initial map that holds it,
\* I1-I4 hold, the key is in the bucket of that value and in no other, and
\* Len() is the sum of the bucket sizes.
C25_LastWriteWins ==
    pc[NewCaller] = "idle" =>
        /\ \A k \in CallerK :
              (\E n \in DOMAIN initial : k \in DOMAIN initial[n]) =>
                  /\ GetResult(data, k) = <<LastWritten(k), TRUE>>
                  /\ \A v \in DOMAIN reverseMap : k \in reverseMap[v] <=> v = LastWritten(k)
        /\ I1 /\ I2 /\ I3 /\ I4
        /\ LenResult(data) = BucketSizes(reverseMap, DOMAIN reverseMap)

\* ------------------------------------------------------- returned slices
\* The caller keeps the slice GetKeys, List or Values returned.
KeepGetKeys(value) ==
    /\ \E s \in GetKeysSlices(reverseMap, value) :
          /\ held' = s
          /\ last' = Call("GetKeys", 0, value, Zero, FALSE, s.elems)
    /\ UNCHANGED <<data, reverseMap, conc, initial, capacity, backing, seen>>

KeepList ==
    /\ \E s \in ListSlices(data) :
          /\ held' = s
          /\ last' = Call("List", 0, Zero, Zero, FALSE, s.elems)
    /\ UNCHANGED <<data, reverseMap, conc, initial, capacity, backing, seen>>

KeepValues ==
    /\ \E s \in ValuesSlices(data) :
          /\ held' = s
          /\ last' = Call("Values", 0, Zero, Zero, FALSE, s.elems)
    /\ UNCHANGED <<data, reverseMap, conc, initial, capacity, backing, seen>>

\* keys[i] = x: the caller changes an element of the slice it holds.
Assign(i, x) ==
    /\ i \in DOMAIN held.elems
    /\ LET r == SliceAssign(held, i, x, data, reverseMap)
       IN  /\ held' = r.held
           /\ data' = r.data
           /\ reverseMap' = r.reverseMap
    /\ last' = Call("Assign", i, Zero, Zero, FALSE, x)
    /\ UNCHANGED <<conc, initial, capacity, backing, seen>>

SnapInit ==
    /\ data = New(<<>>).data
    /\ reverseMap = New(<<>>).reverseMap
    /\ last = NoCall
    /\ mu = [w |-> 0, readers |-> {}]
    /\ pc = [t \in {} |-> "idle"]
    /\ call = [t \in {} |-> NoCall]
    /\ j = [t \in {} |-> 0]
    /\ seq = New(<<>>)
    /\ expect = [t \in {} |-> {}]
    /\ initial = <<>>
    /\ held = NoSlice
    /\ backing = 0
    /\ capacity = 0
    /\ seen = <<>>

SnapNext ==
    \/ \E key \in CallerK, value \in CallerV : Set(key, value)
    \/ \E key \in CallerK : Remove(key)
    \/ \E value \in CallerV : KeepGetKeys(value)
    \/ KeepList
    \/ KeepValues
    \/ \E i \in 1..NumCallerKeys : \E x \in (IF held.type = "K" THEN CallerK ELSE CallerV) : Assign(i, x)

SnapSpec == SnapInit /\ [][SnapNext]_vars

\* C15: the slice a caller got from GetKeys, List or Values holds the same
\* elements after every later Set and Remove, and an assignment to one of
\* its elements changes the slice and neither data nor reverseMap.
C15_Snapshots ==
    [][/\ last'.op \in {"Set", "Remove"}
            => SliceElems(held', data', reverseMap') = SliceElems(held, data, reverseMap)
       /\ last'.op = "Assign"
            => /\ data' = data
               /\ reverseMap' = reverseMap
               /\ held'.elems[last'.key] = last'.ret]_vars

\* Remove has just deleted a key that a slice returned earlier still lists.
C15_Witness ==
    /\ last.op = "Remove" /\ last.ret = TRUE
    /\ held.type = "K"
    /\ last.key \in Range(held.elems)

\* C21: every call releases the lock it took, on the early return of Set and
\* the false return of Remove too: a goroutine that is in no call holds no
\* side of the lock, so the lock is free when no call is in progress; and no
\* goroutine holds the writer side and a read lock at once.
C21_LockReleased ==
    /\ (\A t \in DOMAIN pc : pc[t] = "idle") => mu = [w |-> 0, readers |-> {}]
    /\ \A t \in DOMAIN pc :
          /\ pc[t] = "idle" => mu.w # t /\ t \notin mu.readers
          /\ mu.w = t => pc[t] \in {"LockWait"} \cup InWrite
          /\ t \in mu.readers => pc[t] \in InRead
          /\ ~(mu.w = t /\ t \in mu.readers)

\* Every call has returned, a Set among them, and the lock is free.
C21_Witness ==
    /\ \A t \in DOMAIN pc : pc[t] = "idle"
    /\ DOMAIN data # {}
    /\ mu.w = 0

\* ---------------------------------------------------------------- fairness
\* The Go scheduler runs every goroutine that can run, and sync.RWMutex does
\* not starve a waiter: a blocked Lock hands the mutex over in starvation
\* mode, and the readers blocked behind a writer are admitted when it
\* unlocks. So a goroutine whose next step is possible again and again takes
\* it in the end. Nothing makes a goroutine call the map. (Every step of a
\* call moves the goroutine's pc, so pc is subscript enough.)
ConcFairSpec == ConcSpec /\ \A t \in Procs : SF_pc(Step(t))

\* Some goroutine with a call in progress can take its next step.
SomeCallCanMove ==
    (\E t \in Procs : pc[t] # "idle") => \E t \in Procs : ENABLED Step(t)

\* C22: in no reachable state is every call in progress blocked, and under
\* fair scheduling every call that is invoked gets its lock and returns.
C22_NoStuckCall ==
    /\ []SomeCallCanMove
    /\ \A t \in Procs :
          /\ (pc[t] = "Lock") ~> (pc[t] \in InWrite)
          /\ (pc[t] = "RLock") ~> (pc[t] \in InRead)
          /\ (pc[t] # "idle") ~> (pc[t] = "idle")

\* A writer waits for a reader to leave while the other callers that arrive
\* would wait behind it.
C22_Witness ==
    \E t, u \in DOMAIN pc :
        /\ pc[t] = "LockWait" /\ call[t].op = "Set"
        /\ pc[u] = "Read"

\* ---------------------------------------------- CapSpec: NewWithCapacity
\* NewWithCapacity(capacity) with capacity from -MaxCapacity to MaxCapacity,
\* then any calls of the methods, one at a time; each call is made on a map
\* from New() as well (seq), which may return the results in expect.
MaxCapacity == 2

\* make(map[..].., n) of a slice or channel: a negative n panics at run time.
MakeMapPanics_LikeSlice(hint) == hint < 0

\* make(map[..].., hint) with a hint that is not a constant: the hint only
\* sizes the first allocation, and a negative one is taken as zero; only for
\* slices and channels does a negative size panic.
MakeMapPanics(hint) == FALSE

\* The map make(map[..].., hint) returns: it has room for hint elements and
\* holds none.
MakeMapHint(hint) == MakeMap

\* A constructor that fills the forward index with capacity keys of zero
\* value, as make([]V, capacity) would fill a slice.
NewWithCapacityResult_Filled(n) ==
    [data |-> [k \in {x \in CallerK : x <= n} |-> Zero], reverseMap |-> MakeMapHint(n)]

\* return &Map{data: make(map[K]V, capacity), reverseMap: make(..., capacity)}
NewWithCapacityResult(n) == [data |-> MakeMapHint(n), reverseMap |-> MakeMapHint(n)]

CapCalls ==
    {Call("Set", key, value, Zero, FALSE, 0) : key \in CallerK, value \in CallerV}
    \cup {Call("Remove", key, Zero, Zero, FALSE, 0) : key \in CallerK}
    \cup {Call("Get", key, Zero, Zero, FALSE, 0) : key \in CallerK}
    \cup {Call("GetKeys", 0, value, Zero, FALSE, 0) : value \in CallerV}
    \cup {Call(op, 0, Zero, Zero, FALSE, 0) : op \in {"List", "Values", "Len"}}

CapInit ==
    /\ capacity \in -MaxCapacity..MaxCapacity
    /\ data = MakeMap
    /\ reverseMap = MakeMap
    /\ mu = [w |-> 0, readers |-> {}]
    /\ pc = [t \in {NewCaller} |-> "NewWithCapacity"]
    /\ call = [t \in {NewCaller} |-> NoCall]
    /\ j = [t \in {NewCaller} |-> 0]
    /\ seq = New(<<>>)
    /\ expect = [t \in {NewCaller} |-> {}]
    /\ last = NoCall
    /\ initial = <<>>
    /\ held = NoSlice
    /\ backing = 0
    /\ seen = <<>>

\* m := NewWithCapacity(capacity)
NewWithCapacity(t) ==
    /\ pc[t] = "NewWithCapacity"
    /\ IF MakeMapPanics(capacity)
       THEN Goto(t, "panic") /\ UNCHANGED <<data, reverseMap, last>>
       ELSE /\ Goto(t, "idle")
            /\ data' = NewWithCapacityResult(capacity).data
            /\ reverseMap' = NewWithCapacityResult(capacity).reverseMap
            /\ last' = Call("NewWithCapacity", capacity, Zero, Zero, FALSE, 0)
    /\ UNCHANGED <<mu, call, j, seq, expect, caller, seen>>

\* A read method called on the map and on the map from New().
CapRead(t) ==
    /\ pc[t] = "idle"
    /\ \E c \in CapCalls :
          /\ c.op \notin {"Set", "Remove"}
          /\ \E ret \in ReadResults(c, data, reverseMap) : last' = [c EXCEPT !.ret = ret]
          /\ expect' = [expect EXCEPT ![t] = ReadResults(c, seq.data, seq.reverseMap)]
    /\ UNCHANGED <<data, reverseMap, mu, pc, call, j, seq, caller, seen>>

\* Set or Remove called on the map and on the map from New().
CapWrite(t) ==
    /\ pc[t] = "idle"
    /\ \E c \in CapCalls :
          /\ c.op \in {"Set", "Remove"}
          /\ LET r == WriteResult(c, Indexes)
                 e == WriteResult(c, seq)
             IN  /\ data' = r.data
                 /\ reverseMap' = r.reverseMap
                 /\ last' = [c EXCEPT !.ret = r.ret]
                 /\ seq' = [data |-> e.data, reverseMap |-> e.reverseMap]
                 /\ expect' = [expect EXCEPT ![t] = {e.ret}]
    /\ UNCHANGED <<mu, pc, call, j, caller, seen>>

CapNext ==
    \/ NewWithCapacity(NewCaller)
    \/ CapRead(NewCaller)
    \/ CapWrite(NewCaller)

CapSpec == CapInit /\ [][CapNext]_vars

\* C23: for a capacity of zero or more, NewWithCapacity returns an empty map
\* (Len() is 0), and after any calls of Set, Remove, Get, GetKeys, List,
\* Values and Len the map holds the same forward and reverse index as a map
\* from New() after the same calls, and the last call has returned a result
\* that it may return on that map.
C23_SameAsNew ==
    (capacity >= 0 /\ pc[NewCaller] # "NewWithCapacity") =>
        /\ pc[NewCaller] = "idle"
        /\ Indexes = seq
        /\ last.op = "NewWithCapacity" => LenResult(data) = 0 /\ data = New(<<>>).data
        /\ last.op # "NewWithCapacity" => last.ret \in expect[NewCaller]

\* A map made with a positive capacity has been filled and emptied again.
C23_Witness ==
    /\ capacity > 0
    /\ last.op = "Remove" /\ last.ret = TRUE
    /\ DOMAIN data = {} /\ DOMAIN seq.data = {}
    /\ expect[NewCaller] = {TRUE}

\* C24: NewWithCapacity with a negative capacity does not panic; it returns
\* the map that a capacity of zero gives, which is empty, and the calls on it
\* do what they do on a map from New().
C24_NegativeCapacity ==
    capacity < 0 =>
        /\ pc[NewCaller] # "panic"
        /\ NewWithCapacityResult(capacity) = NewWithCapacityResult(0)
        /\ last.op = "NewWithCapacity" => DOMAIN data = {} /\ DOMAIN reverseMap = {}
        /\ pc[NewCaller] = "idle" =>
              /\ I1 /\ I2 /\ I3 /\ I4
              /\ Indexes = seq
              /\ last.op = "Get" => last.ret \in expect[NewCaller]

\* A map made with a negative capacity holds a key that was set.
C24_Witness ==
    /\ capacity < 0
    /\ last.op = "Get" /\ last.ret = <<"value-1", TRUE>>

\* --------------------------- TestSeenSpec: what the reader's Len() sees
\* The goroutines of TestSpec, with a record of the Set calls returned when
\* the reader goroutine invoked its Len and of the Len result it had before.
TestSeenInit ==
    /\ data = New(<<>>).data
    /\ reverseMap = New(<<>>).reverseMap
    /\ mu = [w |-> 0, readers |-> {}]
    /\ pc = [t \in TestProcs |-> "idle"]
    /\ call = [t \in TestProcs |-> NoCall]
    /\ j = [t \in TestProcs |-> 0]
    /\ seq = New(<<>>)
    /\ expect = [t \in TestProcs |-> {}]
    /\ last = NoCall
    /\ initial = <<>>
    /\ held = NoSlice
    /\ backing = 0
    /\ capacity = 0
    /\ seen = [t \in {TestReader} |-> [lo |-> 0, prev |-> 0]]

TestSeenSpec == TestSeenInit /\ [][TestNext]_vars

\* C26: a Len() of the reader goroutine, called while the writers Set their
\* fresh keys, returns the size of the map in a state between two Set calls
\* (what Len returns on seq when it reads): at least the number of Set calls
\* that had returned when Len was invoked, at most the number of Set calls
\* invoked by the time Len returns, and no less than this goroutine's
\* previous Len().
C26_LenBetweenCommits ==
    \A t \in DOMAIN seen :
        (pc[t] = "RUnlock" /\ call[t].op = "Len") =>
            /\ call[t].ret \in expect[t]
            /\ seen[t].lo <= call[t].ret["Len"]
            /\ call[t].ret["Len"] <= SetsInvoked
            /\ seen[t].prev <= call[t].ret["Len"]

\* The reader's Len() is about to return 1, as its Len() before did: one Set
\* had returned when it was invoked, and the second writer has invoked its
\* Set since.
C26_Witness ==
    \E t \in DOMAIN seen :
        /\ pc[t] = "RUnlock" /\ call[t].op = "Len"
        /\ call[t].ret["Len"] = 1
        /\ seen[t].prev = 1
        /\ seen[t].lo = 1
        /\ SetsInvoked = 2

\* C27: after Set(k1, v) and then Set(k2, v), when no other key maps to v,
\* every slice GetKeys(v) may return is [k1, k2]: the keys in the order in
\* which they were set.
C27_GetKeysInSetOrder ==
    [][\A k1, k2 \in K, v \in V :
          (/\ k1 # k2
           /\ last.op = "Set" /\ last.key = k1 /\ last.value = v
           /\ last'.op = "Set" /\ last'.key = k2 /\ last'.value = v
           /\ {k \in DOMAIN data' : data'[k] = v} = {k1, k2})
              => GetKeysResults(reverseMap', v) = {<<k1, k2>>}]_vars

ReadMethods == {"Get", "GetKeys", "List", "Values", "Len", "String"}

\* C28: a call of Get, GetKeys, List, Values, Len or String leaves the forward
\* index and every bucket of the reverse index as they were; GetKeys(v) for
\* a value without a bucket returns an empty slice and makes no bucket.
C28_ReadsChangeNothing ==
    [][last'.op \in ReadMethods =>
          /\ data' = data
          /\ reverseMap' = reverseMap
          /\ (last'.op = "GetKeys" /\ last'.value \notin DOMAIN reverseMap) =>
                /\ last'.ret = <<>>
                /\ last'.value \notin DOMAIN reverseMap']_vars

\* GetKeys has just been called for a value that no key of the map has.
C28_Witness ==
    /\ last.op = "GetKeys" /\ last.ret = <<>>
    /\ last.value \notin DOMAIN reverseMap
    /\ DOMAIN data # {}

\* The bucket of value v, empty when there is none, and whether there is one.
Bucket(rm, v) == MapIndex(rm, v, {})

\* C29: Set(k, v) and Remove(k) leave Get(k2) as it was for every key k2
\* other than k; the buckets other than that of k's previous value and that
\* of v are as they were, and in those two no key other than k has come or
\* gone.
C29_TouchOnlyKey ==
    [][last'.op \in {"Set", "Remove"} =>
          LET k == last'.key
              touched == (IF last'.exists THEN {last'.oldValue} ELSE {})
                             \cup (IF last'.op = "Set" THEN {last'.value} ELSE {})
          IN  /\ \A k2 \in K \ {k} : GetResult(data', k2) = GetResult(data, k2)
              /\ \A v \in V \ touched : Bucket(reverseMap', v) = Bucket(reverseMap, v)
              /\ \A v \in V : Bucket(reverseMap', v)[1] \ {k} = Bucket(reverseMap, v)[1] \ {k}]_vars

\* Set has just moved a key to a value that another key has, while a third
\* key has a value that the call does not touch.
C29_Witness ==
    /\ last.op = "Set" /\ last.exists /\ last.oldValue # last.value
    /\ \E k2 \in DOMAIN data \ {last.key} : data[k2] = last.value
    /\ \E k3 \in DOMAIN data \ {last.key} : data[k3] \notin {last.value, last.oldValue}

\* The calls that change key k.
Mutations(k) ==
    {Call("Set", k, v, Zero, FALSE, 0) : v \in V} \cup {Call("Remove", k, Zero, Zero, FALSE, 0)}

\* The indexes after the call c on the indexes s.
After(c, s) ==
    LET r == WriteResult(c, s)
    IN  [data |-> r.data, reverseMap |-> r.reverseMap]

\* C30: a Set or Remove on k1 and a Set or Remove on another key k2 give the
\* same forward index and the same buckets in either order: when the map
\* makes the first as a step, making the second on the new state gives what
\* the first gives on the indexes the second leaves on the old state; also
\* when the two calls have the same value.
C30_DistinctKeysCommute ==
    [][last'.op \in {"Set", "Remove"} =>
          \A k2 \in K \ {last'.key} : \A b \in Mutations(k2) :
              After(b, Indexes') = After(last', After(b, Indexes))]_vars

\* Set has just put a key under a value that another key has too, and the
\* bucket of the key's previous value, if it had one, is gone.
C30_Witness ==
    /\ last.op = "Set" /\ (~last.exists \/ last.oldValue # last.value)
    /\ \E k2 \in DOMAIN data \ {last.key} : data[k2] = last.value
    /\ last.exists => last.oldValue \notin DOMAIN reverseMap

\* C31: after Set(k, v) on a key k that the map does not hold, Remove(k)
\* gives back the forward index and the reverse index of before the Set;
\* when v had no bucket before the Set it has none after the Remove.
C31_SetThenRemove ==
    [][(last'.op = "Set" /\ ~last'.exists) =>
          LET k == last'.key
              v == last'.value
              undone == After(Call("Remove", k, Zero, Zero, FALSE, 0), Indexes')
          IN  /\ GetResult(data', k) = <<v, TRUE>>
              /\ RemoveResult(data', reverseMap', k).ret = TRUE
              /\ undone = Indexes
              /\ v \notin DOMAIN reverseMap => v \notin DOMAIN undone.reverseMap]_vars

\* Set has just added a key under a value that had no key, in a map that
\* holds other keys.
C31_Witness ==
    /\ last.op = "Set" /\ ~last.exists
    /\ KeysOf(last.value) = {last.key}
    /\ reverseMap[last.value] = {last.key}
    /\ Cardinality(DOMAIN data) >= 2

\* ---------------------------------------------------------------------
\* The caller keeps the map it passed to New and goes on using it next to
\* the Map.  A Go map value is a reference: backing names the map that
\* m.data refers to, and a write through either name of one map is seen
\* through the other.

\* m.data = initialData[0]: New keeping the caller's map as its own.
NewBacking_KeepsInitial(initialData) == IF initialData = <<>> THEN 0 ELSE 1

\* data: make(map[K]V): m.data is a map made by New, which the loop fills
\* entry by entry with m.data[k] = v.
NewBacking(initialData) == 0

\* New called with no map or with one map of the caller.
CopyInitialData == {<<>>} \cup {<<m>> : m \in CallerMaps}

CopyInit ==
    \E initialData \in CopyInitialData :
        /\ initial = initialData
        /\ data = New(initialData).data
        /\ reverseMap = New(initialData).reverseMap
        /\ backing = NewBacking(initialData)
        /\ last = NoCall
        /\ mu = [w |-> 0, readers |-> {}]
        /\ pc = [t \in {} |-> "idle"]
        /\ call = [t \in {} |-> NoCall]
        /\ j = [t \in {} |-> 0]
        /\ seq = New(initialData)
        /\ expect = [t \in {} |-> {}]
        /\ held = NoSlice
        /\ capacity = 0
        /\ seen = <<>>

\* The caller's maps after m.data has become d.
CallerSees(d) == IF backing = 0 THEN initial ELSE [initial EXCEPT ![backing] = d]

\* m.data after the caller's map i has become dataMap.
MapSees(i, dataMap) == IF backing = i THEN dataMap ELSE data

\* m.Set(key, value) and m.Remove(key) while the caller holds its map.
CopyWrite(c) ==
    LET r == WriteResult(c, Indexes)
        look == MapIndex(data, c.key, Zero)
    IN  /\ data' = r.data
        /\ reverseMap' = r.reverseMap
        /\ initial' = CallerSees(r.data)
        /\ last' = Call(c.op, c.key, c.value, look[1], look[2], r.ret)
        /\ seq' = [data |-> r.data, reverseMap |-> r.reverseMap]
        /\ UNCHANGED <<conc, held, capacity, backing, seen>>

\* initial[k] = v: the caller writes to the map it passed to New.
CallerAssign(i, k, v) ==
    /\ i \in DOMAIN initial
    /\ initial' = [initial EXCEPT ![i] = MapAssign(@, k, v)]
    /\ data' = MapSees(i, initial'[i])
    /\ last' = Call("CallerAssign", k, v, Zero, FALSE, 0)
    /\ UNCHANGED <<reverseMap, conc, held, capacity, backing, seen>>

\* delete(initial, k): the caller deletes from the map it passed to New.
CallerDelete(i, k) ==
    /\ i \in DOMAIN initial
    /\ initial' = [initial EXCEPT ![i] = MapDelete(@, k)]
    /\ data' = MapSees(i, initial'[i])
    /\ last' = Call("CallerDelete", k, Zero, Zero, FALSE, 0)
    /\ UNCHANGED <<reverseMap, conc, held, capacity, backing, seen>>

CopyNext ==
    \/ \E key \in CallerK, value \in CallerV : CopyWrite(Call("Set", key, value, Zero, FALSE, 0))
    \/ \E key \in CallerK : CopyWrite(Call("Remove", key, Zero, Zero, FALSE, 0))
    \/ \E i \in DOMAIN initial, k \in CallerK, v \in CallerV : CallerAssign(i, k, v)
    \/ \E i \in DOMAIN initial, k \in CallerK : CallerDelete(i, k)

CopySpec == CopyInit /\ [][CopyNext]_vars

\* The calls of the read methods on the keys and values of the caller.
CopyReads ==
    {Call("Get", k, Zero, Zero, FALSE, 0) : k \in CallerK}
        \cup {Call("GetKeys", 0, v, Zero, FALSE, 0) : v \in CallerV}
        \cup {Call(op, 0, Zero, Zero, FALSE, 0) : op \in {"List", "Values", "Len"}}

\* C32: a Set or Remove on the Map leaves the map the caller passed to New
\* as it was, and a write or delete of the caller on that map leaves what
\* Get, GetKeys, List, Values and Len return on the Map as it was.
C32_InitialCopied ==
    [][/\ last'.op \in {"Set", "Remove"} => initial' = initial
       /\ last'.op \in {"CallerAssign", "CallerDelete"} =>
             \A c \in CopyReads :
                 ReadResults(c, data', reverseMap') = ReadResults(c, data, reverseMap)]_vars

\* The caller has just changed the map it passed to New, after what the
\* Map holds and what that map holds have come apart on every key.
C32_Witness ==
    /\ last.op \in {"CallerAssign", "CallerDelete"}
    /\ Len(initial) = 1
    /\ DOMAIN data # {} /\ DOMAIN initial[1] # {}
    /\ \A k \in CallerK : GetResult(data, k) # GetResult(initial[1], k)

\* The statements of removeFromReverseMap.
InRemoveFromReverseMap == {"rfr_delete", "rfr_drop"}

\* C33: a goroutine that is inside removeFromReverseMap is in a call of Set
\* or Remove and holds the write lock of the map: it is the writer, no
\* goroutine holds the read lock, and no other goroutine is inside a
\* method body.
C33_RfrUnderWriteLock ==
    \A t \in Procs :
        pc[t] \in InRemoveFromReverseMap =>
            /\ call[t].op \in {"Set", "Remove"}
            /\ mu.w = t
            /\ mu.readers = {}
            /\ \A u \in Procs \ {t} : pc[u] \notin InWrite \cup InRead

\* A goroutine is inside removeFromReverseMap, called by Remove, while
\* another goroutine waits for a lock of the map.
C33_Witness ==
    \E t \in Procs :
        /\ pc[t] = "rfr_drop"
        /\ call[t].op = "Remove"
        /\ \E u \in Procs \ {t} : pc[u] \in {"Lock", "RLock"}

====
